---- MODULE Spec2Model ----
(***************************************************************************)
(* The /chat pipeline of the Bank of Anthos AI agent (src/src/ai-agent/    *)
(* app.py): credential decoding, intent extraction (rule based, or the     *)
(* remote model with its fallback), validation, transaction building and   *)
(* the two downstream calls.                                               *)
(*                                                                         *)
(* Text is modelled after text.lower().strip() as a sequence of tokens: a  *)
(* word or phrase, the literal "account" or "routing" followed by a run of *)
(* digits, or a number with an optional fraction.  Strings of digits are   *)
(* sequences of 0..9; Python/JSON values carry their type.                 *)
(***************************************************************************)
EXTENDS Integers, Sequences, FiniteSets, TLC

\* ---------------------------------------------------------------- bounds
MaxTokens == 2
MaxRequests == 2

\* ------------------------------------------------------- Python values
NoneV == [t |-> "none", neg |-> FALSE, s |-> <<>>, f |-> <<>>]

Str(s) == [t |-> "str", neg |-> FALSE, s |-> s, f |-> <<>>]

IntV(neg, d) == [t |-> "int", neg |-> neg, s |-> d, f |-> <<>>]

FloatV(neg, w, f) == [t |-> "float", neg |-> neg, s |-> w, f |-> f]

IsZeroDigits(d) == \A i \in 1..Len(d) : d[i] = 0

IsDigits(d) == \A i \in 1..Len(d) : d[i] \in 0..9

RECURSIVE StripZeros(_)
StripZeros(d) == IF Len(d) > 1 /\ d[1] = 0 THEN StripZeros(Tail(d)) ELSE d

\* bool(v): None, "", 0 and 0.0 are falsy
Truthy(v) ==
  CASE v.t = "none" -> FALSE
    [] v.t = "str" -> Len(v.s) > 0
    [] v.t = "int" -> ~IsZeroDigits(v.s)
    [] v.t = "float" -> ~(IsZeroDigits(v.s) /\ IsZeroDigits(v.f))

\* x or d
OrElse(v, d) == IF Truthy(v) THEN v ELSE d

IsNumber(v) == v.t \in {"int", "float"}

\* v <= 0 for a number
LeqZero(v) == v.neg \/ ~Truthy(v)

\* int(v) for a number: truncation towards zero
ToInt(v) ==
  IF IsZeroDigits(v.s) THEN IntV(FALSE, <<0>>) ELSE IntV(v.neg, StripZeros(v.s))

Min(S) == CHOOSE x \in S : \A y \in S : x <= y

\* ------------------------------------------------------- configuration
LOCAL_ROUTING == <<8, 8, 3, 7, 4, 5, 0, 0, 0>>

DEFAULT_EXTERNAL_ACCT == <<1, 1, 1, 1, 1, 1, 1, 1, 1, 1>>

DEFAULT_EXTERNAL_ROUTING == <<2, 2, 2, 2, 2, 2, 2, 2, 2>>

\* USE_VERTEX_AI, VERTEX_AVAILABLE, VERTEX_PROJECT (set or not) and PUB_KEY
\* (loaded or not) are fixed when the process starts.  The remote-model
\* settings and the key are independent; each is varied with the other off.
Configs ==
  [USE_VERTEX_AI : {FALSE}, VERTEX_AVAILABLE : {FALSE},
   VERTEX_PROJECT : {FALSE}, PUB_KEY : BOOLEAN]
  \cup [USE_VERTEX_AI : {TRUE}, VERTEX_AVAILABLE : BOOLEAN,
        VERTEX_PROJECT : BOOLEAN, PUB_KEY : {FALSE}]

\* ------------------------------------------------- rule-based extraction
Word(w) == [k |-> "word", w |-> w, s |-> <<>>, f |-> <<>>]

Account(d) == [k |-> "account", w |-> "account", s |-> d, f |-> <<>>]

Routing(d) == [k |-> "routing", w |-> "routing", s |-> d, f |-> <<>>]

Number(w, f) == [k |-> "number", w |-> "", s |-> w, f |-> f]

\* [0-9]+(?:\.[0-9]{1,2})? matched at token tok, times 100 and rounded
Cents(tok) ==
  LET fr == IF Len(tok.f) > 2 THEN SubSeq(tok.f, 1, 2) ELSE tok.f
      pad == IF Len(fr) = 0 THEN <<0, 0>>
             ELSE IF Len(fr) = 1 THEN fr \o <<0>> ELSE fr
  IN IntV(FALSE, StripZeros(tok.s \o pad))

\* amount_re.search(t): the first run of digits anywhere in the text
amount_re(t) ==
  LET hits == {i \in 1..Len(t) : Len(t[i].s) > 0}
  IN IF hits = {} THEN NoneV ELSE Cents(t[Min(hits)])

\* account_re.findall(t)[0]: the first ten digits after the first "account"
\* that is followed by at least ten digits
account_re(t) ==
  LET hits == {i \in 1..Len(t) : t[i].k = "account" /\ Len(t[i].s) >= 10}
  IN IF hits = {} THEN NoneV ELSE Str(SubSeq(t[Min(hits)].s, 1, 10))

\* routing_re.search(t): the first nine digits after "routing"
routing_re(t) ==
  LET hits == {i \in 1..Len(t) : t[i].k = "routing" /\ Len(t[i].s) >= 9}
  IN IF hits = {} THEN NoneV ELSE Str(SubSeq(t[Min(hits)].s, 1, 9))

HasKeyword(t, kws) == \E i \in 1..Len(t) : t[i].k = "word" /\ t[i].w \in kws

BalanceKeywords == {"balance", "how much do i have", "what's my balance", "check balance"}

DepositKeywords == {"deposit", "add money", "cash in"}

TransferKeywords == {"transfer", "send", "pay"}

parse_intent_rule_based(t) ==
  LET amount == amount_re(t)
      to_account == account_re(t)
      found_routing == routing_re(t)
      intent == IF HasKeyword(t, BalanceKeywords) THEN "check_balance"
                ELSE IF HasKeyword(t, DepositKeywords) THEN "deposit"
                ELSE IF HasKeyword(t, TransferKeywords) THEN "transfer"
                ELSE "unknown"
      \* from_account is never taken from the text
      from_account == IF intent = "deposit"
                      THEN OrElse(NoneV, Str(DEFAULT_EXTERNAL_ACCT))
                      ELSE NoneV
      from_routing == IF intent = "deposit"
                         /\ (~Truthy(found_routing) \/ found_routing = Str(LOCAL_ROUTING))
                      THEN Str(DEFAULT_EXTERNAL_ROUTING)
                      ELSE found_routing
  IN [intent |-> intent, amount |-> amount, to_account |-> to_account,
      from_account |-> from_account, from_routing |-> from_routing]

\* ------------------------------------------------ remote-model extraction
\* What the remote model does on one invocation: it raises, returns text
\* that is no JSON, returns JSON that is no object, or returns an object.
NoData ==
  [intent |-> "unknown", amount |-> NoneV, to_account |-> NoneV,
   from_account |-> NoneV, from_routing |-> NoneV]

parse_intent_vertex(cfg, t, model) ==
  IF ~(cfg.USE_VERTEX_AI /\ cfg.VERTEX_AVAILABLE /\ cfg.VERTEX_PROJECT)
  THEN [raised |-> TRUE, nlu |-> NoData, vertex |-> "not configured"]
  ELSE IF model.mode = "object"
  THEN [raised |-> FALSE, vertex |-> "returned",
        nlu |-> [intent |-> model.data.intent, amount |-> model.data.amount,
                 to_account |-> model.data.to_account,
                 from_account |-> model.data.from_account,
                 from_routing |-> model.data.from_routing]]
  ELSE [raised |-> FALSE, vertex |-> "fallback", nlu |-> parse_intent_rule_based(t)]

parse_intent(cfg, t, model) ==
  IF cfg.USE_VERTEX_AI THEN parse_intent_vertex(cfg, t, model)
  ELSE [raised |-> FALSE, vertex |-> "disabled", nlu |-> parse_intent_rule_based(t)]

\* ------------------------------------------------------------ credential
NoCredentials == [present |-> FALSE, scheme |-> "", form |-> "empty", signed |-> FALSE, acct |-> NoneV]

Bearer(form, signed, acct) ==
  [present |-> TRUE, scheme |-> "Bearer", form |-> form, signed |-> signed, acct |-> acct]

\* the token is an empty string, a string that is no JWT, or a JWT whose
\* signature (and expiry) verifies against PUB_KEY or does not
require_auth(credentials) ==
  IF ~credentials.present \/ credentials.scheme = "" \/ credentials.form = "empty"
  THEN [ok |-> FALSE, status |-> 401, detail |-> "Authorization header required"]
  ELSE [ok |-> TRUE, status |-> 200, detail |-> ""]

\* _decode_jwt that rejects a token whose verification against PUB_KEY fails
_decode_jwt_strict(cfg, credentials) ==
  IF credentials.form = "jwt" /\ (credentials.signed \/ ~cfg.PUB_KEY)
  THEN [ok |-> TRUE, verified |-> cfg.PUB_KEY, acct |-> credentials.acct, detail |-> ""]
  ELSE [ok |-> FALSE, verified |-> FALSE, acct |-> NoneV, detail |-> "Invalid token"]

_decode_jwt(cfg, credentials) ==
  IF cfg.PUB_KEY /\ credentials.form = "jwt" /\ credentials.signed
  THEN [ok |-> TRUE, verified |-> TRUE, acct |-> credentials.acct, detail |-> ""]
  ELSE IF credentials.form = "jwt"
  THEN [ok |-> TRUE, verified |-> FALSE, acct |-> credentials.acct, detail |-> ""]
  ELSE [ok |-> FALSE, verified |-> FALSE, acct |-> NoneV, detail |-> "Invalid token"]

\* ------------------------------------------------------ downstream calls
Timeout == [timeout |-> TRUE, status |-> 0, body |-> "none"]

Reply(status, body) == [timeout |-> FALSE, status |-> status, body |-> body]

NoTx ==
  [amount |-> NoneV, uuid |-> 0, fromAccountNum |-> NoneV, fromRoutingNum |-> NoneV,
   toAccountNum |-> NoneV, toRoutingNum |-> NoneV]

Response(kind, status, detail, intent) ==
  [kind |-> kind, status |-> status, detail |-> detail, intent |-> intent]

\* requests.get(..., timeout=10), then the status check and int(r.json()) /
\* int(r.text)
get_balance(account_id, down) ==
  LET call == [op |-> "get_balance", account |-> account_id, payload |-> NoTx]
  IN IF down.timeout
     THEN [calls |-> <<call>>, ok |-> FALSE,
           error |-> Response("exception", 500, "requests.Timeout", "")]
     ELSE IF down.status # 200
     THEN [calls |-> <<call>>, ok |-> FALSE,
           error |-> Response("HTTPException", down.status, "Balance fetch failed", "")]
     ELSE IF down.body # "int"
     THEN [calls |-> <<call>>, ok |-> FALSE,
           error |-> Response("exception", 500, "ValueError", "")]
     ELSE [calls |-> <<call>>, ok |-> TRUE, error |-> Response("", 200, "", "")]

\* post_transaction that submits a second time when the first attempt fails
post_transaction_retry(payload, down) ==
  LET call == [op |-> "post_transaction", account |-> NoneV, payload |-> payload]
  IN IF down.timeout
     THEN [calls |-> <<call, call>>, ok |-> FALSE,
           error |-> Response("exception", 500, "requests.Timeout", "")]
     ELSE IF down.status \notin {200, 201}
     THEN [calls |-> <<call, call>>, ok |-> FALSE,
           error |-> Response("HTTPException", down.status, "Transaction failed", "")]
     ELSE [calls |-> <<call>>, ok |-> TRUE, error |-> Response("", 200, "", "")]

\* requests.post(..., timeout=15), then the status check
post_transaction(payload, down) ==
  LET call == [op |-> "post_transaction", account |-> NoneV, payload |-> payload]
  IN IF down.timeout
     THEN [calls |-> <<call>>, ok |-> FALSE,
           error |-> Response("exception", 500, "requests.Timeout", "")]
     ELSE IF down.status \notin {200, 201}
     THEN [calls |-> <<call>>, ok |-> FALSE,
           error |-> Response("HTTPException", down.status, "Transaction failed", "")]
     ELSE [calls |-> <<call>>, ok |-> TRUE, error |-> Response("", 200, "", "")]

\* _cents_to_str formats with :02d, which raises ValueError on a float
_cents_to_str_raises(amount) == amount.t = "float"

\* -------------------------------------------------------------- /chat
\* str(uuid.uuid4()): the n-th value the generator has handed out
uuid4(n) == n

Outcome(response, parsed, p, calls, uuids) ==
  [response |-> response, parsed |-> parsed, nlu |-> p.nlu, vertex |-> p.vertex,
   calls |-> calls, uuids |-> uuids]

NotParsed == [raised |-> FALSE, nlu |-> NoData, vertex |-> "not reached"]

\* transfer_branch with the recipient checked only after the submission
transfer_branch_post_first(p, account_id, amount, tx, down) ==
  LET to_acct == p.nlu.to_account
      payload == [tx EXCEPT !.fromAccountNum = account_id,
                            !.fromRoutingNum = Str(LOCAL_ROUTING),
                            !.toAccountNum = to_acct,
                            !.toRoutingNum = Str(LOCAL_ROUTING)]
      sent == post_transaction(payload, down)
  IN IF ~sent.ok THEN Outcome(sent.error, TRUE, p, sent.calls, 1)
     ELSE IF ~(to_acct.t = "str" /\ Len(to_acct.s) = 10 /\ IsDigits(to_acct.s))
     THEN Outcome(Response("HTTPException", 400,
                    "Please provide a valid 10-digit recipient account.", ""),
                  TRUE, p, sent.calls, 1)
     ELSE Outcome(Response("ok", 200, "Transferred", "transfer"), TRUE, p, sent.calls, 1)

\* lines 362-374
transfer_branch(p, account_id, amount, tx, down) ==
  LET to_acct == p.nlu.to_account IN
  IF ~Truthy(to_acct)
  THEN Outcome(Response("HTTPException", 400,
                 "Please provide a valid 10-digit recipient account.", ""), TRUE, p, <<>>, 1)
  ELSE IF to_acct.t # "str"
  THEN Outcome(Response("exception", 500, "TypeError", ""), TRUE, p, <<>>, 1)
  ELSE IF ~(Len(to_acct.s) = 10 /\ IsDigits(to_acct.s))
  THEN Outcome(Response("HTTPException", 400,
                 "Please provide a valid 10-digit recipient account.", ""), TRUE, p, <<>>, 1)
  ELSE
    LET payload == [tx EXCEPT !.fromAccountNum = account_id,
                              !.fromRoutingNum = Str(LOCAL_ROUTING),
                              !.toAccountNum = to_acct,
                              !.toRoutingNum = Str(LOCAL_ROUTING)]
        sent == post_transaction(payload, down)
    IN IF ~sent.ok THEN Outcome(sent.error, TRUE, p, sent.calls, 1)
       ELSE IF _cents_to_str_raises(amount)
       THEN Outcome(Response("exception", 500, "ValueError", ""), TRUE, p, sent.calls, 1)
       ELSE Outcome(Response("ok", 200, "Transferred", "transfer"), TRUE, p, sent.calls, 1)

\* deposit_source without the check against the local routing number
deposit_source_unchecked(nlu) ==
  [acct |-> OrElse(nlu.from_account, Str(DEFAULT_EXTERNAL_ACCT)),
   routing |-> OrElse(nlu.from_routing, Str(DEFAULT_EXTERNAL_ROUTING))]

\* lines 377-381
deposit_source(nlu) ==
  LET from_acct == OrElse(nlu.from_account, Str(DEFAULT_EXTERNAL_ACCT))
      from_routing == OrElse(nlu.from_routing, Str(DEFAULT_EXTERNAL_ROUTING))
  IN [acct |-> from_acct,
      routing |-> IF from_routing = Str(LOCAL_ROUTING)
                  THEN Str(DEFAULT_EXTERNAL_ROUTING) ELSE from_routing]

\* lines 376-390
deposit_branch(p, account_id, amount, tx, down) ==
  LET src == deposit_source(p.nlu)
      payload == [tx EXCEPT !.fromAccountNum = src.acct,
                            !.fromRoutingNum = src.routing,
                            !.toAccountNum = account_id,
                            !.toRoutingNum = Str(LOCAL_ROUTING)]
      sent == post_transaction(payload, down)
  IN IF ~sent.ok THEN Outcome(sent.error, TRUE, p, sent.calls, 1)
     ELSE IF _cents_to_str_raises(amount)
     THEN Outcome(Response("exception", 500, "ValueError", ""), TRUE, p, sent.calls, 1)
     ELSE Outcome(Response("ok", 200, "Deposited", "deposit"), TRUE, p, sent.calls, 1)

\* new_tx with a token generated once, when the module is loaded
new_tx_static(amount, uuid) == [NoTx EXCEPT !.amount = ToInt(amount), !.uuid = uuid4(1)]

\* lines 358-361: the transaction starts with the amount and a fresh token
new_tx(amount, uuid) == [NoTx EXCEPT !.amount = ToInt(amount), !.uuid = uuid4(uuid)]

\* lines 353-390
transaction_branch(p, account_id, uuid, down) ==
  LET amount == p.nlu.amount IN
  IF ~Truthy(amount)
  THEN Outcome(Response("HTTPException", 400, "Please specify a positive amount.", ""),
               TRUE, p, <<>>, 0)
  ELSE IF ~IsNumber(amount)
  THEN Outcome(Response("exception", 500, "TypeError", ""), TRUE, p, <<>>, 0)
  ELSE IF LeqZero(amount)
  THEN Outcome(Response("HTTPException", 400, "Please specify a positive amount.", ""),
               TRUE, p, <<>>, 0)
  ELSE
    LET tx == new_tx(amount, uuid)
    IN IF p.nlu.intent = "transfer"
       THEN transfer_branch(p, account_id, amount, tx, down)
       ELSE deposit_branch(p, account_id, amount, tx, down)

\* lines 338-397.  cfg is the process configuration, req the request, env
\* what the remote model and the downstream service do during this request,
\* uuid the next value of the UUID generator
chat(cfg, req, env, uuid) ==
  LET auth == require_auth(req.credentials) IN
  IF ~auth.ok
  THEN Outcome(Response("HTTPException", auth.status, auth.detail, ""), FALSE, NotParsed, <<>>, 0)
  ELSE
  LET claims == _decode_jwt(cfg, req.credentials) IN
  IF ~claims.ok
  THEN Outcome(Response("HTTPException", 401, claims.detail, ""), FALSE, NotParsed, <<>>, 0)
  ELSE
  LET account_id == claims.acct IN
  IF ~Truthy(account_id)
  THEN Outcome(Response("HTTPException", 400, "Token missing account id", ""),
               FALSE, NotParsed, <<>>, 0)
  ELSE
  LET p == parse_intent(cfg, req.message, env.model)
      intent == p.nlu.intent
  IN
  IF p.raised
  THEN Outcome(Response("exception", 500, "RuntimeError", ""), FALSE, p, <<>>, 0)
  ELSE IF intent = "check_balance"
  THEN LET got == get_balance(account_id, env.down)
       IN IF ~got.ok THEN Outcome(got.error, TRUE, p, got.calls, 0)
          ELSE Outcome(Response("ok", 200, "Balance", intent), TRUE, p, got.calls, 0)
  ELSE IF intent \in {"transfer", "deposit"}
  THEN transaction_branch(p, account_id, uuid, env.down)
  ELSE Outcome(Response("ok", 200, "Help", "unknown"), TRUE, p, <<>>, 0)

\* ------------------------------------------------------------- inputs
ACCT_A == <<1, 2, 3, 4, 5, 6, 7, 8, 9, 0>>

ACCT_B == <<9, 9, 9, 9, 9, 9, 9, 9, 9, 9>>

SHORT_ACCT == <<1, 2, 3, 4, 5, 6, 7, 8, 9>>

OTHER_ROUTING == <<1, 2, 3, 4, 5, 6, 7, 8, 9>>

Tokens ==
  {Word("balance"), Word("deposit"), Word("transfer"),
   Account(ACCT_A), Routing(LOCAL_ROUTING),
   Number(<<2, 5>>, <<>>)}

Messages == UNION {[1..n -> Tokens] : n \in 0..MaxTokens}

CredentialsSet ==
  {NoCredentials, Bearer("empty", FALSE, NoneV), Bearer("malformed", FALSE, NoneV)}
  \cup {Bearer("jwt", TRUE, Str(ACCT_A))}
  \cup {Bearer("jwt", FALSE, a) : a \in {NoneV, Str(ACCT_A), Str(ACCT_B), Str(<<1, 2, 3>>)}}

Requests == [credentials : CredentialsSet, message : Messages]

NoRequest == [credentials |-> NoCredentials, message |-> <<>>]

NotInvoked == [mode |-> "not invoked", data |-> NoData]

ModelObjects ==
  {[NoData EXCEPT !.intent = i] : i \in {"check_balance", "smalltalk"}}
  \cup {[NoData EXCEPT !.intent = "transfer", !.amount = a, !.to_account = Str(ACCT_A)] :
          a \in {IntV(FALSE, <<2, 5, 0, 0>>), IntV(FALSE, <<0>>), IntV(TRUE, <<5>>),
                 Str(<<5>>), FloatV(FALSE, <<0>>, <<5>>)}}
  \cup {[NoData EXCEPT !.intent = "transfer", !.amount = IntV(FALSE, <<2, 5, 0, 0>>),
                       !.to_account = t] :
          t \in {Str(SHORT_ACCT), IntV(FALSE, ACCT_A)}}
  \cup {[NoData EXCEPT !.intent = "deposit", !.amount = IntV(FALSE, <<2, 5, 0, 0>>),
                       !.from_account = f, !.from_routing = r] :
          f \in {NoneV, Str(SHORT_ACCT)},
          r \in {NoneV, Str(LOCAL_ROUTING), Str(OTHER_ROUTING)}}

ModelReplies ==
  {[mode |-> m, data |-> NoData] : m \in {"raises", "malformed", "not an object"}}
  \cup {[mode |-> "object", data |-> d] : d \in ModelObjects}

NotCalled == [timeout |-> FALSE, status |-> 0, body |-> "none"]

DownReplies ==
  {Timeout, Reply(200, "int"), Reply(200, "text"), Reply(201, "int"), Reply(401, "text")}

NoOutcome == Outcome(Response("", 0, "", ""), FALSE, NotParsed, <<>>, 0)

\* --------------------------------------------------------------- state
VARIABLES cfg, pc, request, env, out, uuidNext, submitted, nreq

\* The payment service (src/src/paymentservice/paymentservice.py) is another
\* process: redis is its store of one-time codes, payLedger the transactions
\* it has posted to the ledger writer, accepted the confirmations that got
\* past the code check, payResp its last response, initiates and confirms
\* the requests it has served.
VARIABLES redis, payLedger, accepted, payResp, initiates, confirms

chatvars == <<cfg, pc, request, env, out, uuidNext, submitted, nreq>>

payvars == <<redis, payLedger, accepted, payResp, initiates, confirms>>

vars == <<chatvars, payvars>>

Emails == {"user@example.com", "other@example.com"}

\* no key is set
NoKey == [set |-> FALSE, raw |-> <<>>, gen |-> 0, mailed |-> FALSE]

NoPayResp == [op |-> "", status |-> 0, body |-> ""]

PayIdle ==
  /\ redis = [e \in Emails |-> NoKey]
  /\ payLedger = <<>>
  /\ accepted = <<>>
  /\ payResp = NoPayResp
  /\ initiates = 0
  /\ confirms = 0

\* the idempotency tokens of the payloads a request handed to the ledger
Tokens_of(calls) ==
  [i \in 1..Len(calls) |-> calls[i].payload.uuid]

Posts(calls) == SelectSeq(calls, LAMBDA c : c.op = "post_transaction")

Init ==
  /\ cfg \in Configs
  /\ pc = "idle"
  /\ request = NoRequest
  /\ env = [model |-> NotInvoked, down |-> NotCalled]
  /\ out = NoOutcome
  /\ uuidNext = 1
  /\ submitted = <<>>
  /\ nreq = 0
  /\ PayIdle

\* a client sends POST /chat
Receive ==
  /\ pc = "idle"
  /\ nreq < MaxRequests
  /\ request' \in Requests
  /\ pc' = "pending"
  /\ UNCHANGED <<cfg, env, out, uuidNext, submitted, nreq, payvars>>

\* The environment answers only the calls the handler makes: the remote
\* model is asked only when parse_intent_vertex reaches the invocation, the
\* downstream service only when get_balance or post_transaction runs.
ModelChoices ==
  IF chat(cfg, request, [model |-> NotInvoked, down |-> NotCalled], uuidNext).vertex = "fallback"
  THEN ModelReplies ELSE {NotInvoked}

DownChoices(m) ==
  IF chat(cfg, request, [model |-> m, down |-> NotCalled], uuidNext).calls # <<>>
  THEN DownReplies ELSE {NotCalled}

\* the handler runs to its response
Chat ==
  /\ pc = "pending"
  /\ \E m \in ModelChoices :
       \E d \in DownChoices(m) :
         LET o == chat(cfg, request, [model |-> m, down |-> d], uuidNext) IN
         /\ out' = o
         /\ env' = [model |-> m, down |-> d]
         /\ uuidNext' = uuidNext + o.uuids
         /\ submitted' = submitted \o Tokens_of(Posts(o.calls))
  /\ pc' = "done"
  /\ nreq' = nreq + 1
  /\ UNCHANGED <<cfg, request, payvars>>

\* the response is sent; nothing of the request is kept
Respond ==
  /\ pc = "done"
  /\ pc' = "idle"
  /\ request' = NoRequest
  /\ env' = [model |-> NotInvoked, down |-> NotCalled]
  /\ out' = NoOutcome
  /\ UNCHANGED <<cfg, uuidNext, submitted, nreq, payvars>>

Next == Receive \/ Chat \/ Respond

Spec == Init /\ [][Next]_vars

\* ------------------------------------------------------------- claims
Done == pc = "done"

Balances(calls) == SelectSeq(calls, LAMBDA c : c.op = "get_balance")

\* the three validation failures of the handler
ValidationDetails ==
  {"Token missing account id", "Please specify a positive amount.",
   "Please provide a valid 10-digit recipient account."}

ValidationFailure ==
  /\ out.response.kind = "HTTPException"
  /\ out.response.status = 400
  /\ out.response.detail \in ValidationDetails

\* C1: a request that ends in a BadRequest validation failure (no account
\* id in the claims, missing or non-positive amount, missing or malformed
\* recipient) has made no downstream call and has handed nothing to the
\* ledger.
C1_ValidationBeforeNetwork ==
  (Done /\ ValidationFailure) =>
     /\ out.calls = <<>>
     /\ env.down = NotCalled
     /\ \A i \in 1..Len(submitted) : submitted[i] < uuidNext - out.uuids

C1_Witness ==
  /\ Done
  /\ ValidationFailure
  /\ out.response.detail = "Please provide a valid 10-digit recipient account."
  /\ out.nlu.intent = "transfer"
  /\ out.uuids = 1

\* what the extraction found as the source of a deposit: the remote model's
\* fields, or (rule based) the account and routing named in the text
NoSourceFound ==
  IF out.vertex = "returned"
  THEN ~Truthy(env.model.data.from_account) /\ ~Truthy(env.model.data.from_routing)
  ELSE account_re(request.message) = NoneV /\ routing_re(request.message) = NoneV

DepositPosts ==
  IF Done /\ out.parsed /\ out.nlu.intent = "deposit" THEN Posts(out.calls) ELSE <<>>

\* C2: a submitted Deposit never carries the local routing number as
\* fromRoutingNum, and carries the default external account and routing
\* when the extraction found no source account and no routing.
C2_DepositSourceExternal ==
  \A i \in 1..Len(DepositPosts) :
    LET tx == DepositPosts[i].payload IN
    /\ tx.fromRoutingNum # Str(LOCAL_ROUTING)
    /\ NoSourceFound =>
         /\ tx.fromAccountNum = Str(DEFAULT_EXTERNAL_ACCT)
         /\ tx.fromRoutingNum = Str(DEFAULT_EXTERNAL_ROUTING)

C2_Witness ==
  /\ Len(DepositPosts) = 1
  /\ out.vertex = "returned"
  /\ env.model.data.from_routing = Str(LOCAL_ROUTING)
  /\ DepositPosts[1].payload.fromRoutingNum = Str(DEFAULT_EXTERNAL_ROUTING)

\* the outcome of the same request, with the same environment and the
\* same UUID generator, when USE_VERTEX_AI is off
OutcomeWithoutRemote ==
  chat([cfg EXCEPT !.USE_VERTEX_AI = FALSE], request, env, uuidNext - out.uuids)

RemoteFailed == cfg.USE_VERTEX_AI /\ out.vertex \in {"not configured", "fallback"}

\* C3: when remote extraction is enabled and fails (not configured, raises,
\* malformed output), the rule-based extractor runs and entities, response
\* and downstream calls are those of the request with remote extraction
\* disabled.
C3_RemoteFailureFallsBack ==
  (Done /\ RemoteFailed) =>
     /\ out.response = OutcomeWithoutRemote.response
     /\ out.nlu = OutcomeWithoutRemote.nlu
     /\ out.calls = OutcomeWithoutRemote.calls
     /\ out.response.detail # "RuntimeError"

\* what the claim calls passing validation: a positive amount and, for a
\* transfer, a recipient of exactly ten digits
PassesValidation(nlu) ==
  /\ IsNumber(nlu.amount) /\ ~nlu.amount.neg /\ Truthy(nlu.amount)
  /\ nlu.intent = "transfer" =>
       (nlu.to_account.t = "str" /\ Len(nlu.to_account.s) = 10 /\ IsDigits(nlu.to_account.s))

\* C4: a request makes at most one downstream call: one balance query for
\* CheckBalance, one submission for a valid Deposit or Transfer, none for
\* any other intent; a failed call is not repeated.
C4_AtMostOneCall ==
  Done =>
    /\ Len(out.calls) <= 1
    /\ (out.parsed /\ out.nlu.intent = "check_balance") =>
         (Len(Balances(out.calls)) = 1 /\ Len(Posts(out.calls)) = 0)
    /\ (out.parsed /\ out.nlu.intent \in {"deposit", "transfer"} /\ PassesValidation(out.nlu)) =>
         (Len(Posts(out.calls)) = 1 /\ Len(Balances(out.calls)) = 0)
    /\ (out.parsed /\ out.nlu.intent \notin {"check_balance", "deposit", "transfer"}) =>
         out.calls = <<>>
    /\ ~out.parsed => out.calls = <<>>

C4_Witness ==
  /\ Done
  /\ Len(Posts(out.calls)) = 1
  /\ env.down = Reply(401, "text")
  /\ out.response.detail = "Transaction failed"

UpstreamDetails == {"Balance fetch failed", "Transaction failed"}

\* C5: a downstream call that times out fails the request with the same
\* class of error as a downstream non-success status.
C5_TimeoutIsUpstreamError ==
  (Done /\ env.down.timeout) =>
     /\ out.response.kind = "HTTPException"
     /\ out.response.detail \in UpstreamDetails

AllPosts == IF Done THEN Posts(out.calls) ELSE <<>>

FromOwn(tx) ==
  tx.fromAccountNum = request.credentials.acct /\ tx.fromRoutingNum = Str(LOCAL_ROUTING)

ToOwn(tx) ==
  tx.toAccountNum = request.credentials.acct /\ tx.toRoutingNum = Str(LOCAL_ROUTING)

\* C6: in every transaction built, exactly one of the from pair and the to
\* pair is (caller's account, local routing): the from pair for a Transfer,
\* the to pair for a Deposit.
C6_ExactlyOneOwnPair ==
  \A i \in 1..Len(AllPosts) :
    LET tx == AllPosts[i].payload IN
    /\ FromOwn(tx) # ToOwn(tx)
    /\ out.nlu.intent = "transfer" => FromOwn(tx)
    /\ out.nlu.intent = "deposit" => ToOwn(tx)

IsDigitString(v, n) == v.t = "str" /\ Len(v.s) = n /\ IsDigits(v.s)

\* C7: every submitted transaction has a positive integer amount, 10-digit
\* account numbers and 9-digit routing numbers.
C7_WellFormedTransaction ==
  \A i \in 1..Len(AllPosts) :
    LET tx == AllPosts[i].payload IN
    /\ tx.amount.t = "int" /\ ~tx.amount.neg /\ Truthy(tx.amount)
    /\ IsDigitString(tx.fromAccountNum, 10)
    /\ IsDigitString(tx.toAccountNum, 10)
    /\ IsDigitString(tx.fromRoutingNum, 9)
    /\ IsDigitString(tx.toRoutingNum, 9)

\* the two failures of the credential loader
Unauthorized ==
  /\ out.response.kind = "HTTPException"
  /\ out.response.status = 401
  /\ out.response.detail \in {"Authorization header required", "Invalid token"}

Undecodable ==
  \/ ~request.credentials.present
  \/ request.credentials.form # "jwt"

\* C8: a request fails as Unauthorized exactly when the credential is
\* missing, empty or cannot be decoded even without verification; a token
\* that decodes is accepted whether or not its signature verifies, and its
\* claims are the authorization context of the request.
C8_UnauthorizedOnlyIfUndecodable ==
  Done =>
    /\ Unauthorized <=> Undecodable
    /\ (~Undecodable /\ Truthy(request.credentials.acct)) => out.vertex # "not reached"
    /\ \A i \in 1..Len(Balances(out.calls)) :
         Balances(out.calls)[i].account = request.credentials.acct

C8_Witness ==
  /\ Done
  /\ cfg.PUB_KEY
  /\ request.credentials.form = "jwt"
  /\ ~request.credentials.signed
  /\ Len(Balances(out.calls)) = 1
  /\ out.response.kind = "ok"

RuleBased == out.vertex \in {"disabled", "fallback"}

\* C9: with the rule-based extractor the first 10-digit number after
\* "account" is the recipient of a Transfer and the source of a Deposit;
\* the default external account is the source only when the text names no
\* account.
C9_NamedAccountIsUsed ==
  \A i \in 1..Len(AllPosts) :
    LET tx == AllPosts[i].payload
        named == account_re(request.message)
    IN RuleBased =>
         /\ out.nlu.intent = "transfer" => tx.toAccountNum = named
         /\ (out.nlu.intent = "deposit" /\ named # NoneV) => tx.fromAccountNum = named
         /\ (out.nlu.intent = "deposit" /\ named = NoneV) =>
              tx.fromAccountNum = Str(DEFAULT_EXTERNAL_ACCT)

\* C10: no two transactions handed to the ledger carry the same
\* idempotency token, and a request hands over at most one token (the
\* generator uuid4 being fresh on every call).
C10_TokensDistinct ==
  /\ \A i, j \in 1..Len(submitted) : i # j => submitted[i] # submitted[j]
  /\ Done => Len(Posts(out.calls)) <= 1
  /\ Done => \A i \in 1..Len(Posts(out.calls)) :
               Posts(out.calls)[i].payload.uuid = submitted[Len(submitted)]

C10_Witness ==
  /\ Done
  /\ Len(submitted) = 2
  /\ Len(Posts(out.calls)) = 1
  /\ submitted[1] # submitted[2]

\* ------------------------------------------------------ payment service
MaxInitiates == 2

MaxConfirms == 3

\* str(random.randint(100000, 999999))
OtpCodes == {"100000", "999999"}

\* an invoice id, as its pieces between colons: "INV-1" and "INV:1"
InvoiceIds == {<<"INV-1">>, <<"INV", "1">>}

Amounts == {"100"}

\* f'{otp}:{invoice_id}:{amount}', as the pieces that split(':') returns
Stored(otp, invoice_id, amount) == <<otp>> \o invoice_id \o <<amount>>

get_account_by_email(email) ==
  IF email = "user@example.com" THEN Str(ACCT_A) ELSE NoneV

PayResp(op, status, body) == [op |-> op, status |-> status, body |-> body]

\* POST /payment/initiate: the code is stored for 300 s, then mailed; when
\* the mail relay fails the handler raises with the code already stored
initiate_payment(payer_email, invoice_id, amount) ==
  /\ initiates < MaxInitiates
  /\ \E otp \in OtpCodes, smtp_ok \in BOOLEAN :
       /\ redis' = [redis EXCEPT ![payer_email] =
                      [set |-> TRUE, raw |-> Stored(otp, invoice_id, amount),
                       gen |-> initiates + 1, mailed |-> smtp_ok]]
       /\ payResp' = IF smtp_ok THEN PayResp("initiate", 200, "OTP sent successfully")
                     ELSE PayResp("initiate", 500, "SMTPException")
  /\ initiates' = initiates + 1
  /\ UNCHANGED <<payLedger, accepted, confirms>>

\* the 300 s of setex have passed
expire(payer_email) ==
  /\ redis[payer_email].set
  /\ redis' = [redis EXCEPT ![payer_email] = NoKey]
  /\ UNCHANGED <<payLedger, accepted, payResp, initiates, confirms>>

\* POST /payment/confirm.  The handler reads redis once and writes nothing
\* to it, so concurrent confirmations interleave as if each ran alone.
confirm_payment(payer_email, otp_attempt) ==
  LET stored_data == redis[payer_email]
      parts == stored_data.raw
      payer_account == get_account_by_email(payer_email)
      payee_account == get_account_by_email("sender@example.com")
      use == [gen |-> stored_data.gen, mailed |-> stored_data.mailed]
  IN
  /\ confirms < MaxConfirms
  /\ confirms' = confirms + 1
  /\ UNCHANGED <<redis, initiates>>
  /\ IF ~stored_data.set
     THEN /\ payResp' = PayResp("confirm", 400, "OTP expired or invalid")
          /\ UNCHANGED <<payLedger, accepted>>
     ELSE IF Len(parts) # 3
     THEN /\ payResp' = PayResp("confirm", 500, "ValueError")
          /\ UNCHANGED <<payLedger, accepted>>
     ELSE IF otp_attempt # parts[1]
     THEN /\ payResp' = PayResp("confirm", 400, "Invalid OTP")
          /\ UNCHANGED <<payLedger, accepted>>
     ELSE IF ~Truthy(payer_account) \/ ~Truthy(payee_account)
     THEN /\ payResp' = PayResp("confirm", 400, "Invalid payer or payee email")
          /\ accepted' = Append(accepted, use)
          /\ UNCHANGED payLedger
     ELSE /\ accepted' = Append(accepted, use)
          /\ payLedger' = Append(payLedger,
                            [from_account |-> payer_account, to_account |-> payee_account,
                             amount |-> parts[3], gen |-> stored_data.gen])
          /\ \E status \in {200, 500} :
               payResp' = IF status = 200
                          THEN PayResp("confirm", 200, "Payment successful")
                          ELSE PayResp("confirm", 500, "Payment failed")

Initiate ==
  /\ \E e \in Emails, i \in InvoiceIds, a \in Amounts : initiate_payment(e, i, a)
  /\ UNCHANGED chatvars

Expire ==
  /\ \E e \in Emails : expire(e)
  /\ UNCHANGED chatvars

Confirm ==
  /\ \E e \in Emails, o \in OtpCodes : confirm_payment(e, o)
  /\ UNCHANGED chatvars

\* the agent is not part of this specification: it stays as it starts
PayInit ==
  /\ PayIdle
  /\ cfg = [USE_VERTEX_AI |-> FALSE, VERTEX_AVAILABLE |-> FALSE,
            VERTEX_PROJECT |-> FALSE, PUB_KEY |-> FALSE]
  /\ pc = "idle"
  /\ request = NoRequest
  /\ env = [model |-> NotInvoked, down |-> NotCalled]
  /\ out = NoOutcome
  /\ uuidNext = 1
  /\ submitted = <<>>
  /\ nreq = 0

PayNext == Initiate \/ Expire \/ Confirm

SpecPay == PayInit /\ [][PayNext]_vars

\* the confirmations that got past the code check with the code of the
\* g-th initiate, and the transactions posted for it
UsesOf(g) == {i \in 1..Len(accepted) : accepted[i].gen = g /\ accepted[i].mailed}

PostsOf(g) == {i \in 1..Len(payLedger) : payLedger[i].gen = g}

====
